---- MODULE Spec2Model ----
(***************************************************************************)
(* Model of the Prefect deployment reconciler                               *)
(* (.github/scripts/prefect_deployments.py) and of the parameter merge of  *)
(* the deployment template (prefect/flows/deployments/templates.py).       *)
(*                                                                         *)
(* A word of the VCS output (an operation code or a file path) is a tuple   *)
(* of its "/"-separated components: "A" is <<"A">> and                     *)
(* "prefect/flows/deployments/example.py" is                               *)
(* <<"prefect", "flows", "deployments", "example.py">>.                    *)
(***************************************************************************)
EXTENDS Integers, Sequences, FiniteSets, TLC

\* Largest number of commits `git rev-list` returns, and of lines the
\* `git diff-tree` outputs of one run hold together.
MaxCommits == 2
MaxChanges == 3

VARIABLES
    commits,              \* get_commits(): commit hashes, newest first
    prefect_deployments,  \* the deployment list fetched once per run
    pending,              \* the part of inverted_list not yet iterated
    commit,               \* the loop variable of the outer loop
    modified_files,       \* items of modified_files not yet iterated
    visited,              \* the visited list
    pc,                   \* position of the script
    calls,                \* the calls made so far, in order
    oldest,               \* per key, the oldest commit whose mapping has it
    nchanges,             \* lines of `git diff-tree` output read so far
    params,               \* extract_and_load: the caller's params
    env,                  \* NESSO_BUCKET_NAME, NESSO_LANDING_SCHEMA
    submitted             \* parameters handed to Deployment.build_from_flow

vars == <<commits, prefect_deployments, pending, commit, modified_files,
          visited, pc, calls, oldest, nchanges, params, env, submitted>>

templateVars == <<params, env, submitted>>

----------------------------------------------------------------------------
(* Sequence helpers *)

Range(s) == {s[i] : i \in 1..Len(s)}

Reverse(s) == [i \in 1..Len(s) |-> s[Len(s) + 1 - i]]

RECURSIVE Flatten(_)
Flatten(ss) == IF ss = <<>> THEN <<>> ELSE Head(ss) \o Flatten(Tail(ss))

----------------------------------------------------------------------------
(* The inputs of a run *)

pOut   == <<"prefect", "flows", "custom", "example.py">>
pEx    == <<"prefect", "flows", "deployments", "example.py">>
pOther == <<"prefect", "flows", "deployments", "other.py">>

\* "prefect/flows/deployments/my flow.py", a path that holds a blank: the two
\* words it is split into.
pBlank == << <<"prefect", "flows", "deployments", "my">>, <<"flow.py">> >>

\* The paths of plain lines, in the order `git diff-tree` lists them; the
\* path with the blank sorts between the last two.
PathOrder == <<pOut, pEx, pOther>>

Codes == {"A", "M", "R", "C", "D"}

\* One line of `git diff-tree --name-status`: the words of the line and the
\* rank of the path it is listed under.  A plain line is "<code>\t<path>"; a
\* rename with its similarity score is "R100\t<source>\t<destination>".
PlainLines ==
    {[key |-> 2 * k, words |-> << <<c>>, PathOrder[k] >>] :
        k \in 1..Len(PathOrder), c \in Codes}

RenameLines ==
    {[key |-> 4, words |-> << <<"R100">>, pOut, pEx >>],
     [key |-> 6, words |-> << <<"R100">>, pEx, pOther >>]}

BlankLines == {[key |-> 5, words |-> << <<"A">> >> \o pBlank]}

DiffLines == PlainLines \cup RenameLines \cup BlankLines

\* The outputs of `git diff-tree` for one commit that have n lines, each a
\* sequence of lines listed in path order.
DiffOutputs(n) ==
    {ls \in [1..n -> DiffLines] :
        \A i \in 1..n, j \in 1..n : i < j => ls[i].key < ls[j].key}

\* stdout.strip().split()
Split(ls) == Flatten([i \in 1..Len(ls) |-> ls[i].words])

Deployment(id, tags) == [id |-> id, name |-> id, tags |-> tags]

\* The lists client.read_deployments() may return.
DeploymentLists ==
    {<<>>,
     <<Deployment("d1", {"example.py"}),
       Deployment("d2", {"nightly", "example.py"}),
       Deployment("d3", {"other.py"})>>}

----------------------------------------------------------------------------
(* get_commits, get_modified_files *)

\* `git rev-list` lists the commits newest first; a commit is named by its
\* age rank, 1 the oldest.
RevList(n) == [i \in 1..n |-> n + 1 - i]

\* The list left as `git rev-list` returns it.
InvertedListNewestFirst(cs) == cs

\* reversed(commits)
InvertedList(cs) == Reverse(cs)

HasKey(d, k) == \E i \in 1..Len(d) : d[i][1] = k

\* d[k] = v on a dict kept as the sequence of its (key, value) items.
DictSet(d, k, v) ==
    IF HasKey(d, k)
    THEN [i \in 1..Len(d) |-> IF d[i][1] = k THEN <<k, v>> ELSE d[i]]
    ELSE Append(d, <<k, v>>)

RECURSIVE PairUp(_, _, _)
PairUp(changes, i, d) ==
    IF i > Len(changes) THEN [err |-> FALSE, items |-> d]
    ELSE IF i + 1 > Len(changes) THEN [err |-> TRUE, items |-> <<>>]
    ELSE PairUp(changes, i + 2, DictSet(d, changes[i + 1], changes[i]))

\* {changes[i + 1]: changes[i] for i in range(0, len(changes), 2)}
get_modified_files(changes) == PairUp(changes, 1, <<>>)

----------------------------------------------------------------------------
(* visit_deployment *)

WatchedDir == <<"prefect", "flows", "deployments">>

\* path.startswith("prefect/")
StartsWithPrefect(path) == Len(path) > 1 /\ path[1] = "prefect"

\* path.startswith("prefect/flows/deployments/")
StartsWithWatched(path) ==
    /\ Len(path) > Len(WatchedDir)
    /\ SubSeq(path, 1, Len(WatchedDir)) = WatchedDir

\* os.path.basename(path)
Basename(path) == path[Len(path)]

\* The first branch without the codes R and C.
IsCreateAddedOrModified(path, operation) ==
    StartsWithWatched(path) /\ operation \in {<<"A">>, <<"M">>}

IsCreate(path, operation) ==
    StartsWithWatched(path) /\ operation \in {<<"A">>, <<"M">>, <<"R">>, <<"C">>}

IsDelete(path, operation) ==
    ~IsCreate(path, operation)
    /\ StartsWithWatched(path) /\ operation = <<"D">>

\* file_name == deployment.name
NameMatches(file_name, deployment) == file_name = deployment.name

\* file_name in deployment.tags
TagMatches(file_name, deployment) == file_name \in deployment.tags

\* subprocess.run without check=True.
CreateNeverRaises(status) == FALSE

\* subprocess.run(..., check=True) raises on a non-zero exit status.
CreateRaises(status) == status # 0

\* subprocess.run with check=True.
DeleteRaisesOnFailure(status) == status # 0

\* subprocess.run(..., capture_output=True, text=True) never raises
\* CalledProcessError.
DeleteRaises(status) == FALSE

\* The membership test left out.
AlwaysNotVisited(path, vs) == TRUE

\* if path not in visited
NotVisited(path, vs) == path \notin Range(vs)

Call(fn, path, arg, status) ==
    [fn |-> fn, path |-> path, arg |-> arg, commit |-> commit, status |-> status]

\* The delete calls of one visit: the deployments of ds from index i on,
\* with the exit statuses st; stops at the first call that raises.
RECURSIVE DeleteCalls(_, _, _, _)
DeleteCalls(path, ds, st, i) ==
    IF i > Len(ds) THEN <<>>
    ELSE IF TagMatches(Basename(path), ds[i])
         THEN <<Call("delete_deployment", path, <<ds[i].id>>, st[i])>>
              \o (IF DeleteRaises(st[i]) THEN <<>>
                  ELSE DeleteCalls(path, ds, st, i + 1))
         ELSE DeleteCalls(path, ds, st, i + 1)

Raised(cs) ==
    /\ cs # <<>>
    /\ LET c == cs[Len(cs)] IN
         \/ c.fn = "create_deployment" /\ CreateRaises(c.status)
         \/ c.fn = "delete_deployment" /\ DeleteRaises(c.status)

----------------------------------------------------------------------------
(* templates.py: extract_and_load *)

\* A dict is a function from its keys; None is kept apart from the empty
\* dict.
EmptyDict == [k \in {} |-> <<>>]
None == [isNone |-> TRUE, dict |-> EmptyDict]
Dict(d) == [isNone |-> FALSE, dict |-> d]

ParamKeys == {"to_path", "schema_name", "table"}
ParamValues == {<<"my_table">>, <<"s3:", "", "elsewhere">>}

\* The params a caller may pass.
ParamInputs ==
    {None} \cup {Dict(d) : d \in UNION {[ks -> ParamValues] : ks \in SUBSET ParamKeys}}

\* os.getenv of NESSO_BUCKET_NAME and NESSO_LANDING_SCHEMA, formatted into an
\* f-string: an unset variable reads "None".
EnvInputs == {"None", "my-bucket"} \X {"None", "landing"}

\* {"to_path": f"s3://{bucket}/nesso/{schema_name}"}
EXTRACT_DEFAULT_PARAMS(e) ==
    [k \in {"to_path"} |-> <<"s3:", "", e[1], "nesso", e[2]>>]

\* params or {}
ParamsOrEmpty(p) ==
    IF p.isNone \/ DOMAIN p.dict = {} THEN EmptyDict ELSE p.dict

\* {**b, **a}
MergeDictsDefaultsWin(a, b) ==
    [k \in DOMAIN a \cup DOMAIN b |-> IF k \in DOMAIN a THEN a[k] ELSE b[k]]

\* {**a, **b}
MergeDicts(a, b) ==
    [k \in DOMAIN a \cup DOMAIN b |-> IF k \in DOMAIN b THEN b[k] ELSE a[k]]

\* params_final, passed on as get_deployment(params=...) and from there as
\* Deployment.build_from_flow(parameters=...).
params_final(e, p) == MergeDicts(EXTRACT_DEFAULT_PARAMS(e), ParamsOrEmpty(p))

----------------------------------------------------------------------------
(* The script *)

Init ==
    /\ \E n \in 0..MaxCommits : commits = RevList(n)
    /\ prefect_deployments \in DeploymentLists
    /\ pending = InvertedList(commits)
    /\ commit = 0
    /\ modified_files = <<>>
    /\ visited = <<>>
    /\ pc = "commits"
    /\ calls = <<>>
    /\ oldest = {}
    /\ nchanges = 0
    /\ params = None
    /\ env = <<"None", "None">>
    /\ submitted = None

\* The keys of the mapping of commit c, recorded with the oldest commit that
\* has each key.
Touch(old, c, items) ==
    {t \in old : ~(HasKey(items, t.path) /\ c < t.commit)}
    \cup {[path |-> items[i][1], commit |-> c, op |-> items[i][2]] :
            i \in {j \in 1..Len(items) :
                     \A t \in old : t.path = items[j][1] => c < t.commit}}

\* for commit in inverted_list: modified_files = get_modified_files(commit)
NextCommit ==
    /\ pc = "commits"
    /\ pending # <<>>
    /\ commit' = Head(pending)
    /\ pending' = Tail(pending)
    /\ \E n \in 0..(MaxChanges - nchanges) : \E out \in DiffOutputs(n) :
         LET r == get_modified_files(Split(out)) IN
           /\ nchanges' = nchanges + n
           /\ IF r.err
              THEN /\ pc' = "crashed"
                   /\ UNCHANGED <<modified_files, oldest>>
              ELSE /\ pc' = "files"
                   /\ modified_files' = r.items
                   /\ oldest' = Touch(oldest, Head(pending), r.items)
    /\ UNCHANGED <<commits, prefect_deployments, visited, calls>>
    /\ UNCHANGED templateVars

\* The inner loop is exhausted.
EndCommit ==
    /\ pc = "files"
    /\ modified_files = <<>>
    /\ pc' = "commits"
    /\ UNCHANGED <<commits, prefect_deployments, pending, commit,
                   modified_files, visited, calls, oldest, nchanges>>
    /\ UNCHANGED templateVars

\* The outer loop is exhausted.
Finish ==
    /\ pc = "commits"
    /\ pending = <<>>
    /\ pc' = "done"
    /\ UNCHANGED <<commits, prefect_deployments, pending, commit,
                   modified_files, visited, calls, oldest, nchanges>>
    /\ UNCHANGED templateVars

\* The iteration without visited.append(path).
IterateWithoutAppend(path, cs) ==
    /\ calls' = calls \o cs
    /\ IF Raised(cs)
       THEN /\ pc' = "failed"
            /\ UNCHANGED <<modified_files, visited>>
       ELSE /\ pc' = pc
            /\ modified_files' = Tail(modified_files)
            /\ visited' = visited
    /\ UNCHANGED <<commits, prefect_deployments, pending, commit, oldest,
                   nchanges>>
    /\ UNCHANGED templateVars

\* One iteration of the inner loop whose visit makes the calls cs.
Iterate(path, cs) ==
    /\ calls' = calls \o cs
    /\ IF Raised(cs)
       THEN /\ pc' = "failed"
            /\ UNCHANGED <<modified_files, visited>>
       ELSE /\ pc' = pc
            /\ modified_files' = Tail(modified_files)
            /\ visited' = Append(visited, path)
    /\ UNCHANGED <<commits, prefect_deployments, pending, commit, oldest,
                   nchanges>>
    /\ UNCHANGED templateVars

\* if path not in visited: fails, the path is skipped.
Skip ==
    /\ pc = "files"
    /\ modified_files # <<>>
    /\ ~NotVisited(Head(modified_files)[1], visited)
    /\ modified_files' = Tail(modified_files)
    /\ UNCHANGED <<commits, prefect_deployments, pending, commit, visited,
                   pc, calls, oldest, nchanges>>
    /\ UNCHANGED templateVars

\* visit_deployment, first branch: create the deployment if the file exists.
VisitCreate ==
    /\ pc = "files"
    /\ modified_files # <<>>
    /\ LET path == Head(modified_files)[1]
           operation == Head(modified_files)[2]
           v == Call("visit_deployment", path, operation, 0)
       IN
         /\ NotVisited(path, visited)
         /\ IsCreate(path, operation)
         /\ \/ Iterate(path, <<v, Call("exists", path, <<Basename(path)>>, 0)>>)
            \/ \E status \in {0, 1} :
                 Iterate(path,
                    <<v, Call("exists", path, <<Basename(path)>>, 1),
                      Call("create_deployment", path, <<Basename(path)>>, status)>>)

\* visit_deployment, second branch: delete the deployments tagged with the
\* file name.
VisitDelete ==
    /\ pc = "files"
    /\ modified_files # <<>>
    /\ LET path == Head(modified_files)[1]
           operation == Head(modified_files)[2]
       IN
         /\ NotVisited(path, visited)
         /\ IsDelete(path, operation)
         /\ \E st \in [1..Len(prefect_deployments) -> {0, 1}] :
              /\ \A i \in 1..Len(prefect_deployments) :
                   ~TagMatches(Basename(path), prefect_deployments[i]) => st[i] = 0
              /\ Iterate(path,
                    <<Call("visit_deployment", path, operation, 0)>>
                    \o DeleteCalls(path, prefect_deployments, st, 1))

\* visit_deployment, neither branch.
VisitNoop ==
    /\ pc = "files"
    /\ modified_files # <<>>
    /\ LET path == Head(modified_files)[1]
           operation == Head(modified_files)[2]
       IN
         /\ NotVisited(path, visited)
         /\ ~IsCreate(path, operation)
         /\ ~IsDelete(path, operation)
         /\ Iterate(path, <<Call("visit_deployment", path, operation, 0)>>)

Next ==
    \/ NextCommit
    \/ EndCommit
    \/ Finish
    \/ Skip
    \/ VisitCreate
    \/ VisitDelete
    \/ VisitNoop

Spec == Init /\ [][Next]_vars

----------------------------------------------------------------------------
(* A deployment script calling extract_and_load *)

InitTemplate ==
    /\ commits = <<>>
    /\ prefect_deployments = <<>>
    /\ pending = <<>>
    /\ commit = 0
    /\ modified_files = <<>>
    /\ visited = <<>>
    /\ pc = "call"
    /\ calls = <<>>
    /\ oldest = {}
    /\ nchanges = 0
    /\ params \in ParamInputs
    /\ env \in EnvInputs
    /\ submitted = None

ExtractAndLoad ==
    /\ pc = "call"
    /\ submitted' = Dict(params_final(env, params))
    /\ pc' = "applied"
    /\ UNCHANGED <<commits, prefect_deployments, pending, commit,
                   modified_files, visited, calls, oldest, nchanges>>
    /\ UNCHANGED <<params, env>>

NextTemplate == ExtractAndLoad

SpecTemplate == InitTemplate /\ [][NextTemplate]_vars

----------------------------------------------------------------------------
(* Properties *)

\* The positions in the call sequence cs of the calls of fn made while
\* visiting path.
CallsOf(cs, fn, path) ==
    {i \in 1..Len(cs) : cs[i].fn = fn /\ cs[i].path = path}

Dispatches == {i \in 1..Len(calls) : calls[i].fn = "visit_deployment"}

UnderWatched(path) ==
    /\ Len(path) > 3
    /\ path[1] = "prefect" /\ path[2] = "flows" /\ path[3] = "deployments"

CreateCodes == {<<"A">>, <<"M">>, <<"R">>, <<"C">>}

\* C1: within one run no path is dispatched to visit_deployment twice, in
\* whatever commits and with whatever operation codes it reappears.
DispatchedAtMostOnce ==
    \A i \in Dispatches, j \in Dispatches :
        calls[i].path = calls[j].path => i = j

\* A finished run that read more diff lines than it visited paths: some path
\* reappeared and was skipped.
WitnessSkippedReappearance ==
    /\ pc = "done"
    /\ visited # <<>>
    /\ nchanges > Len(visited)
    /\ Cardinality(Dispatches) = Len(visited)

\* C2, as stated: every watched path first visited with A, M, R or C has
\* create_deployment invoked exactly once.
CreateExactlyOnce ==
    \A i \in Dispatches :
        (UnderWatched(calls[i].path) /\ calls[i].arg \in CreateCodes)
            => Cardinality(CallsOf(calls, "create_deployment", calls[i].path)) = 1

\* C2, amended: for such a path the existence of the file is looked up once,
\* and create_deployment is invoked once if the file exists and not at all
\* if it does not.
CreateOnceIfFileExists ==
    \A i \in Dispatches :
        (UnderWatched(calls[i].path) /\ calls[i].arg \in CreateCodes)
            => LET p == calls[i].path
                   looked == CallsOf(calls, "exists", p)
                   created == CallsOf(calls, "create_deployment", p)
               IN /\ looked = {i + 1}
                  /\ calls[i + 1].arg = <<p[Len(p)]>>
                  /\ IF calls[i + 1].status = 1
                     THEN /\ created = {i + 2}
                          /\ calls[i + 2].arg = <<p[Len(p)]>>
                     ELSE created = {}

\* A run that visited one watched path whose file exists and one whose file
\* does not, both with a create code.
WitnessCreateBothWays ==
    /\ pc = "done"
    /\ \E i \in Dispatches, j \in Dispatches :
         /\ calls[i].arg = <<"R">> /\ calls[j].arg = <<"A">>
         /\ UnderWatched(calls[i].path) /\ UnderWatched(calls[j].path)
         /\ CallsOf(calls, "create_deployment", calls[i].path) # {}
         /\ CallsOf(calls, "create_deployment", calls[j].path) = {}

\* C3: a D on a watched path makes one delete call for every fetched
\* deployment tagged with the file's base name, and none for the others.
DeleteEveryTaggedDeployment ==
    \A i \in Dispatches :
        (UnderWatched(calls[i].path) /\ calls[i].arg = <<"D">>)
            => LET p == calls[i].path IN
               \A k \in 1..Len(prefect_deployments) :
                   Cardinality({j \in CallsOf(calls, "delete_deployment", p) :
                                  calls[j].arg = <<prefect_deployments[k].id>>})
                     = IF p[Len(p)] \in prefect_deployments[k].tags THEN 1 ELSE 0

\* A D on example.py with the two deployments tagged example.py: two delete
\* calls, and the deployment tagged other.py is left alone.
WitnessTwoDeletes ==
    /\ Len(prefect_deployments) = 3
    /\ Cardinality(CallsOf(calls, "delete_deployment", pEx)) = 2
    /\ CallsOf(calls, "delete_deployment", pOther) = {}

\* The script is about to iterate (path, D) of a newer commit, and path is a
\* watched path that an older commit dispatched with A.
AddedThenDeleted ==
    /\ pc = "files"
    /\ modified_files # <<>>
    /\ Head(modified_files)[2] = <<"D">>
    /\ UnderWatched(Head(modified_files)[1])
    /\ \E i \in Dispatches :
         /\ calls[i].path = Head(modified_files)[1]
         /\ calls[i].arg = <<"A">>
         /\ calls[i].commit < commit

\* C4, as stated, where the file existed and the A of the older commit made
\* its one create call: the D of the newer commit then makes one delete call
\* per deployment tagged with the file's base name.
CreateThenDelete ==
    [][(/\ AddedThenDeleted
        /\ Cardinality(CallsOf(calls, "create_deployment",
                                Head(modified_files)[1])) = 1)
         => LET p == Head(modified_files)[1] IN
              \A k \in 1..Len(prefect_deployments) :
                 p[Len(p)] \in prefect_deployments[k].tags
                   => \E j \in CallsOf(calls', "delete_deployment", p) :
                        /\ j > Len(calls)
                        /\ calls'[j].arg = <<prefect_deployments[k].id>>]_vars

\* C4, amended: A in the older commit and D in the newer one give at most one
\* create call (one if the file exists when the older commit is visited), and
\* the D is skipped: no call is made for it, and no delete call at all for
\* the path.
CreateThenSkip ==
    [][AddedThenDeleted =>
         LET p == Head(modified_files)[1] IN
           /\ calls' = calls
           /\ modified_files' = Tail(modified_files)
           /\ CallsOf(calls', "delete_deployment", p) = {}
           /\ Cardinality(CallsOf(calls', "create_deployment", p))
                = Cardinality({j \in CallsOf(calls', "exists", p) :
                                 calls'[j].status = 1})
           /\ Cardinality(CallsOf(calls', "exists", p)) = 1]_vars

\* example.py was created from the A of commit 1, the D of commit 2 is the
\* next item, and both deployments tagged example.py are fetched.
WitnessAddedThenDeleted ==
    /\ AddedThenDeleted
    /\ Head(modified_files)[1] = pEx
    /\ commit = 2
    /\ Len(prefect_deployments) = 3
    /\ Cardinality(CallsOf(calls, "create_deployment", pEx)) = 1

\* C5: create and delete are invoked only while visiting a path under
\* prefect/flows/deployments/.
ActionsOnlyUnderWatched ==
    \A i \in 1..Len(calls) :
        calls[i].fn \in {"create_deployment", "delete_deployment", "exists"}
            => UnderWatched(calls[i].path)

\* A finished run whose changed files all lie outside the watched directory,
\* one of them deleted: paths were dispatched and nothing else was called.
WitnessNothingWatched ==
    /\ pc = "done"
    /\ \E i \in Dispatches : calls[i].path = pOut /\ calls[i].arg = <<"D">>
    /\ \A i \in 1..Len(visited) : ~UnderWatched(visited[i])
    /\ Dispatches = 1..Len(calls)

\* C6: a create call that exits non-zero is the last call of the run, the
\* run stops there, and its path is not added to visited.
CreateFailureAborts ==
    \A i \in 1..Len(calls) :
        (calls[i].fn = "create_deployment" /\ calls[i].status # 0)
            => /\ i = Len(calls)
               /\ pc = "failed"
               /\ calls[i].path \notin Range(visited)
               /\ modified_files # <<>>
               /\ Head(modified_files)[1] = calls[i].path

\* A create failed while another path of the same commit and another commit
\* were still to be processed.
WitnessCreateFailure ==
    /\ pc = "failed"
    /\ calls[Len(calls)].fn = "create_deployment"
    /\ calls[Len(calls)].status # 0
    /\ Len(modified_files) >= 2
    /\ pending # <<>>

OldestCommitWins ==
    /\ \A i \in 1..Len(calls), j \in 1..Len(calls) :
         i < j => calls[i].commit <= calls[j].commit
    /\ \A i \in Dispatches :
         \E t \in oldest :
            /\ t.path = calls[i].path
            /\ t.commit = calls[i].commit
            /\ t.op = calls[i].arg

\* A finished run of two commits that made calls in both and skipped a path
\* that reappeared.
WitnessOldestFirst ==
    /\ pc = "done"
    /\ \E i \in Dispatches : calls[i].commit = 1
    /\ \E i \in 1..Len(calls) :
         calls[i].commit = 2 /\ calls[i].fn \in {"create_deployment", "delete_deployment"}
    /\ nchanges > Len(visited)

\* C10: get_modified_files returns without error, every key of the mapping
\* is the path of a changed file and every value is an operation code.
ChangedPaths == Range(PathOrder) \cup {<<"prefect", "flows", "deployments", "my flow.py">>}

MappingOfPathsToCodes ==
    /\ pc # "crashed"
    /\ \A i \in 1..Len(modified_files) :
         /\ modified_files[i][1] \in ChangedPaths
         /\ modified_files[i][2] \in {<<c>> : c \in Codes}

\* C8: the parameters submitted are the defaults overlaid by the caller's
\* params; params=None is an empty dict.
DefaultsOverlaidByParams ==
    pc = "applied" =>
        LET given == IF params.isNone THEN {} ELSE DOMAIN params.dict
            default == [k \in {"to_path"} |-> <<"s3:", "", env[1], "nesso", env[2]>>]
        IN /\ ~submitted.isNone
           /\ DOMAIN submitted.dict = given \cup {"to_path"}
           /\ \A k \in given : submitted.dict[k] = params.dict[k]
           /\ \A k \in {"to_path"} \ given : submitted.dict[k] = default[k]

\* The caller overrode to_path and added table.
WitnessOverride ==
    /\ pc = "applied"
    /\ ~params.isNone
    /\ DOMAIN params.dict = {"to_path", "table"}
    /\ submitted.dict["to_path"] = <<"s3:", "", "elsewhere">>
    /\ env = <<"my-bucket", "landing">>

====
